---- MODULE Spec2Model ----
(***************************************************************************)
(* Model of the semantic-highlighter TorchServe handlers                   *)
(*   src/src/test/resources/remote-models/torchserve/handlers/             *)
(*       semantic_highlighting_handler.py   (function handler, globals)    *)
(*       torchserve_handler.py              (class handler)                *)
(*                                                                         *)
(* Strings are sequences of characters, offsets are 0-based as in Python, *)
(* sequences are 1-based as in TLA+ (Python index i is TLA+ index i+1).    *)
(* Relevance probabilities are in hundredths (0.5 is 50, 0.05 is 5).       *)
(***************************************************************************)
EXTENDS Integers, Sequences, FiniteSets, TLC

(***************************************************************************)
(* Bounds of the model                                                     *)
(***************************************************************************)
\* longest context string drawn
MaxCtxLen == 4
\* most sentences the segmenter returns
MaxSents == 3
\* most sub-word tokens the tokenizer makes of one word
MaxTokPerWord == 2
\* forward() taken alone: largest sentence id, most passage tokens of a
\* window and most windows of a batch
MaxSid == 2
MaxRowTok == 2
MaxBatch == 2
\* handle(): most invocations in one process, most rows of one invocation
MaxCalls == 3
MaxRows == 1
\* max_seq_length passed to prepare_input_features (510 in the handlers,
\* scaled down so that a few words overflow one window)
MAX_LENGTH == 7
\* stride passed to prepare_input_features (128 in the handlers, scaled)
STRIDE == 1

(***************************************************************************)
(* Program constants                                                       *)
(***************************************************************************)
\* sentence id of a token that belongs to no sentence
NONE == -100
\* _get_preds(threshold=0.5, alpha=0.05), in hundredths
threshold == 50
alpha == 5
\* Python's None in word_ids / sequence_ids, and str.find's "not found"
PyNone == -1
NotFound == -1

Chars == {"a", " "}
\* relevance probabilities the classifier may output, in hundredths: both
\* sides of alpha and of threshold
ProbLevels == {4, 5, 49, 50}
\* number of sub-word tokens of the question
QLens == {1, 2}

(***************************************************************************)
(* Helpers                                                                 *)
(***************************************************************************)
SetMin(S) == CHOOSE x \in S : \A y \in S : x <= y
SetMax(S) == CHOOSE x \in S : \A y \in S : x >= y
Range(s) == {s[i] : i \in DOMAIN s}

RECURSIVE Flatten(_)
Flatten(ss) == IF ss = <<>> THEN <<>> ELSE Head(ss) \o Flatten(Tail(ss))

RECURSIVE Repeat(_, _)
Repeat(x, n) == IF n <= 0 THEN <<>> ELSE <<x>> \o Repeat(x, n - 1)

\* seq[:n] of Python
Take(s, n) == SubSeq(s, 1, IF n < Len(s) THEN n ELSE Len(s))

SeqsUpTo(S, n) == UNION {[1..k -> S] : k \in 0..n}

(***************************************************************************)
(* Sentence positions: _process_single, "Calculate sentence positions"     *)
(***************************************************************************)
\* context.find(sent, current_pos): lowest 0-based index >= current_pos at
\* which sent occurs in context, or -1
Find(ctx, sent, from) ==
    LET cands == {i \in from..(Len(ctx) - Len(sent)) :
                     \A k \in 1..Len(sent) : ctx[i + k] = sent[k]}
    IN  IF cands = {} THEN NotFound ELSE SetMin(cands)

\* faulty variant of StartPos: the search ignores the cursor, context.find(sent)
StartPosFromZero(ctx, sent, current_pos) ==
    LET start_pos == Find(ctx, sent, 0)
    IN  IF start_pos = NotFound THEN current_pos ELSE start_pos

\* one iteration of the loop: the span of sent given the cursor
StartPos(ctx, sent, current_pos) ==
    LET start_pos == Find(ctx, sent, current_pos)
    IN  IF start_pos = NotFound THEN current_pos ELSE start_pos

RECURSIVE PositionsFrom(_, _, _)
PositionsFrom(ctx, sents, current_pos) ==
    IF sents = <<>> THEN <<>>
    ELSE LET start_pos == StartPos(ctx, Head(sents), current_pos)
             end_pos == start_pos + Len(Head(sents))
         IN  <<[start |-> start_pos, end |-> end_pos]>>
                 \o PositionsFrom(ctx, Tail(sents), end_pos)

SentencePositions(ctx, sents) == PositionsFrom(ctx, sents, 0)

(***************************************************************************)
(* Word-level sentence ids: _process_single, "Prepare data"                *)
(***************************************************************************)
\* sent.split(): the maximal runs of non-whitespace characters
RECURSIVE SplitFrom(_, _)
SplitFrom(s, cur) ==
    IF s = <<>> THEN (IF cur = <<>> THEN <<>> ELSE <<cur>>)
    ELSE IF Head(s) = " "
         THEN (IF cur = <<>> THEN <<>> ELSE <<cur>>) \o SplitFrom(Tail(s), <<>>)
         ELSE SplitFrom(Tail(s), Append(cur, Head(s)))

Split(s) == SplitFrom(s, <<>>)

\* words.extend(sent_words)
Words(sents) == Flatten([i \in DOMAIN sents |-> Split(sents[i])])

\* sentence_ids.extend([sid] * len(sent_words)), sid 0-based
WordLevelSentenceIds(sents) ==
    Flatten([i \in DOMAIN sents |-> Repeat(i - 1, Len(Split(sents[i])))])

(***************************************************************************)
(* The tokenizer call of prepare_input_features.  The fast tokenizer is an *)
(* external collaborator; what the handler relies on is modelled: the pair *)
(* [CLS] question [SEP] passage [SEP], truncation="only_second" with       *)
(* overflowing windows advancing by (room - stride), word_ids() and        *)
(* sequence_ids() per window.  A token is [seq, word]: seq is 0 for the    *)
(* question, 1 for the passage, None for a special token.                  *)
(***************************************************************************)
SpecialToken == [seq |-> PyNone, word |-> PyNone]
\* the question is passed as the one-word list [question]
QuestionToken == [seq |-> 0, word |-> 0]
PassageToken(w) == [seq |-> 1, word |-> w]

\* the passage's tokens: word w (0-based) gives tok_per_word[w+1] tokens
PassageTokens(tok_per_word) ==
    Flatten([w \in DOMAIN tok_per_word |->
                Repeat(PassageToken(w - 1), tok_per_word[w])])

\* tokens left for the passage in a window: max_length less the question
\* and the three special tokens
Room(qlen, max_length) == max_length - qlen - 3

\* first passage token (0-based) of every window
WindowStarts(n, room, stride) ==
    IF n <= room THEN {0}
    ELSE {k * (room - stride) : k \in
             {k \in 0..n : k = 0 \/ (k - 1) * (room - stride) + room < n}}

RECURSIVE SortedSeq(_)
SortedSeq(S) ==
    IF S = {} THEN <<>> ELSE <<SetMin(S)>> \o SortedSeq(S \ {SetMin(S)})

Tokenize(qlen, tok_per_word, max_length, stride) ==
    LET ptoks == PassageTokens(tok_per_word)
        n == Len(ptoks)
        room == Room(qlen, max_length)
        starts == SortedSeq(WindowStarts(n, room, stride))
        stop(st) == IF st + room < n THEN st + room ELSE n
    IN  [i \in DOMAIN starts |->
            <<SpecialToken>> \o Repeat(QuestionToken, qlen) \o <<SpecialToken>>
                \o SubSeq(ptoks, starts[i] + 1, stop(starts[i]))
                \o <<SpecialToken>>]

(***************************************************************************)
(* prepare_input_features: per-token sentence ids of every window          *)
(***************************************************************************)
\* while token_start_index < len(sequence_ids)
\*       and sequence_ids[token_start_index] != 1
TokenStartIndex(window) ==
    LET firsts == {t \in 1..Len(window) : window[t].seq = 1}
    IN  IF firsts = {} THEN Len(window) ELSE SetMin(firsts) - 1

\* faulty variant of SentenceIdOfToken: appends the word index itself
SentenceIdOfTokenAsWordIndex(tok, word_level_sentence_ids) ==
    IF tok.word # PyNone /\ tok.word < Len(word_level_sentence_ids)
    THEN tok.word
    ELSE NONE

\* the append in "for word_idx in word_ids[token_start_index:]"
SentenceIdOfToken(tok, word_level_sentence_ids) ==
    IF tok.word # PyNone /\ tok.word < Len(word_level_sentence_ids)
    THEN word_level_sentence_ids[tok.word + 1]
    ELSE NONE

\* faulty variant of WindowSentenceIds: starts from an empty list, without
\* the NONE entries for the positions before token_start_index
WindowSentenceIdsNoPrefix(window, word_level_sentence_ids) ==
    LET token_start_index == TokenStartIndex(window)
    IN  [t \in 1..(Len(window) - token_start_index) |->
            SentenceIdOfToken(window[t + token_start_index],
                              word_level_sentence_ids)]

WindowSentenceIds(window, word_level_sentence_ids) ==
    LET token_start_index == TokenStartIndex(window)
    IN  [t \in 1..Len(window) |->
            IF t <= token_start_index THEN NONE
            ELSE SentenceIdOfToken(window[t], word_level_sentence_ids)]

\* abstract token ids: [CLS]/[SEP] 1, question 2, passage 3
InputId(tok) == IF tok.seq = PyNone THEN 1 ELSE IF tok.seq = 0 THEN 2 ELSE 3
TokenTypeId(tok) == IF tok.seq = 1 THEN 1 ELSE 0

\* one row per window, every field cut to max_seq_length
PrepareInputFeatures(qlen, tok_per_word, word_level_sentence_ids, max_seq_length, stride) ==
    LET windows == Tokenize(qlen, tok_per_word, max_seq_length, stride)
    IN  [i \in DOMAIN windows |->
            [input_ids |->
                 Take([t \in DOMAIN windows[i] |-> InputId(windows[i][t])],
                      max_seq_length),
             token_type_ids |->
                 Take([t \in DOMAIN windows[i] |-> TokenTypeId(windows[i][t])],
                      max_seq_length),
             attention_mask |->
                 Take([t \in DOMAIN windows[i] |-> 1], max_seq_length),
             sentence_ids |->
                 Take(WindowSentenceIds(windows[i], word_level_sentence_ids),
                      max_seq_length),
             word_ids |-> [t \in DOMAIN windows[i] |-> windows[i][t].word]]]

(***************************************************************************)
(* DataCollatorWithPadding: pad_sequence of every key to the longest row   *)
(***************************************************************************)
PadSequence(rows, pad_value) ==
    LET longest == SetMax({Len(rows[i]) : i \in DOMAIN rows})
    IN  [i \in DOMAIN rows |->
            rows[i] \o Repeat(pad_value, longest - Len(rows[i]))]

Collate(examples) ==
    [input_ids |-> PadSequence([i \in DOMAIN examples |-> examples[i].input_ids], 0),
     token_type_ids |->
         PadSequence([i \in DOMAIN examples |-> examples[i].token_type_ids], 0),
     attention_mask |->
         PadSequence([i \in DOMAIN examples |-> examples[i].attention_mask], 0),
     sentence_ids |->
         PadSequence([i \in DOMAIN examples |-> examples[i].sentence_ids], NONE)]

(***************************************************************************)
(* BertTaggerForSentenceExtractionWithBackoff.forward                      *)
(* The encoder and the linear classifier are opaque: what they give is a   *)
(* relevance probability per window and per row of the aggregated matrix.  *)
(***************************************************************************)
\* max_sentences = torch.max(ids) + 1, over the whole batch
MaxSentences(ids) ==
    SetMax(UNION {Range(ids[i]) : i \in DOMAIN ids}) + 1

\* mask = local_ids != -100: the sentence ids present in one window
Present(sen_ids) == Range(sen_ids) \ {NONE}

\* faulty variant of GlobalOffset: no rebasing, the offset is always 0
GlobalOffsetZero(sen_ids) == 0

\* offset = local_ids[mask].min(), 0 for a window with no sentence id
GlobalOffset(sen_ids) ==
    IF Present(sen_ids) = {} THEN 0 ELSE SetMin(Present(sen_ids))

\* n_sent = (local_ids[mask] - offset).max() + 1, 0 for a window with none
NumSents(sen_ids) ==
    IF Present(sen_ids) = {} THEN 0
    ELSE SetMax(Present(sen_ids)) - SetMin(Present(sen_ids)) + 1

\* faulty variant of AggRows: no placeholder, every position below n_sent is
\* pooled as if it had tokens
AggRowsNoPlaceholder(sen_ids, max_sentences) ==
    Repeat("mean", NumSents(sen_ids))
    \o Repeat("pad", max_sentences - NumSents(sen_ids))

\* the rows of one window's matrix: "mean" a pooled sentence vector, "zero"
\* the placeholder of a position no token has, "pad" a padding row
AggRows(sen_ids, max_sentences) ==
    LET n_sent == NumSents(sen_ids)
        offset == GlobalOffset(sen_ids)
    IN  IF n_sent = 0 THEN Repeat("pad", max_sentences)
        ELSE [j \in 1..n_sent |->
                 IF (j - 1) + offset \in Present(sen_ids) THEN "mean" ELSE "zero"]
             \o Repeat("pad", max_sentences - n_sent)

\* torch.zeros((max_sentences, d_model)) of a window with no sentence id
\* raises when max_sentences is negative, which is when no window of the
\* batch has a sentence id
AggRaises(ids) ==
    \E i \in DOMAIN ids : Present(ids[i]) = {} /\ MaxSentences(ids) < 0

GetAggOutput(ids) ==
    [rows |-> [i \in DOMAIN ids |-> AggRows(ids[i], MaxSentences(ids))],
     global_offsets |-> [i \in DOMAIN ids |-> GlobalOffset(ids[i])],
     num_sents |-> [i \in DOMAIN ids |-> NumSents(ids[i])]]

\* faulty variant of ArgMax: the last position of the maximum
ArgMaxLast(rel_probs) ==
    SetMax({j \in DOMAIN rel_probs : rel_probs[j] = SetMax(Range(rel_probs))})

\* rel_probs.argmax(): the first position of the maximum, 1-based here
ArgMax(rel_probs) ==
    SetMin({j \in DOMAIN rel_probs : rel_probs[j] = SetMax(Range(rel_probs))})

\* faulty variant of ThresholdHits: a strict comparison
ThresholdHitsStrict(rel_probs) ==
    [j \in DOMAIN rel_probs |-> IF rel_probs[j] > threshold THEN 1 ELSE 0]

\* hits = (rel_probs >= threshold).int()
ThresholdHits(rel_probs) ==
    [j \in DOMAIN rel_probs |-> IF rel_probs[j] >= threshold THEN 1 ELSE 0]

\* faulty variant of Backoff: the floor alpha is not consulted
BackoffNoFloor(hits, rel_probs) ==
    IF \A j \in DOMAIN hits : hits[j] = 0
    THEN [hits EXCEPT ![ArgMaxLast(rel_probs)] = 1]
    ELSE hits

\* if hits.sum() == 0 and rel_probs.max().item() >= alpha:
\*     hits[rel_probs.argmax()] = 1
Backoff(hits, rel_probs) ==
    IF (\A j \in DOMAIN hits : hits[j] = 0) /\ SetMax(Range(rel_probs)) >= alpha
    THEN [hits EXCEPT ![ArgMax(rel_probs)] = 1]
    ELSE hits

\* faulty variant of WherePlus: the positions in descending order
WherePlusDescending(hits, off) ==
    LET asc == SortedSeq({(j - 1) + off : j \in {k \in DOMAIN hits : hits[k] = 1}})
    IN  [i \in DOMAIN asc |-> asc[Len(asc) + 1 - i]]

\* torch.where(hits == 1)[0] + off: ascending local positions, rebased
WherePlus(hits, off) ==
    SortedSeq({(j - 1) + off : j \in {k \in DOMAIN hits : hits[k] = 1}})

\* one iteration of _get_preds: p the window's probabilities, one per row
\* faulty variant of PredsOfWindow: the whole row is scored, not p[:ns]
PredsOfWindowUnsliced(p, off, ns) ==
    IF ns = 0 THEN <<>>
    ELSE WherePlus(Backoff(ThresholdHits(p), p), off)

PredsOfWindow(p, off, ns) ==
    IF ns = 0 THEN <<>>
    ELSE LET rel_probs == SubSeq(p, 1, ns)
         IN  WherePlus(Backoff(ThresholdHits(rel_probs), rel_probs), off)

GetPreds(pp, offs, num_s) ==
    [i \in DOMAIN pp |-> PredsOfWindow(pp[i], offs[i], num_s[i])]

\* the probabilities the classifier may give for a batch: one per row
ProbsOf(ids) ==
    [DOMAIN ids -> [1..MaxSentences(ids) -> ProbLevels]]

\* forward(): "raised" when the aggregation raises, else the predictions
Forward(ids, pp) ==
    IF AggRaises(ids) THEN [raised |-> TRUE, preds |-> <<>>]
    ELSE LET agg == GetAggOutput(ids)
         IN  [raised |-> FALSE,
              preds |-> GetPreds(pp, agg.global_offsets, agg.num_sents)]

(***************************************************************************)
(* _process_single, "Process results"                                      *)
(***************************************************************************)
\* if 0 <= pred_idx < len(doc_sents)
InRange(pred_idx, doc_sents) == 0 <= pred_idx /\ pred_idx < Len(doc_sents)

\* faulty variant of HighlightsOf: the loop ends at the first index that is
\* out of range
RECURSIVE HighlightsUntilOutOfRange(_, _, _)
HighlightsUntilOutOfRange(pred, doc_sents, sentence_positions) ==
    IF pred = <<>> \/ ~InRange(Head(pred), doc_sents) THEN <<>>
    ELSE <<[start |-> sentence_positions[Head(pred) + 1].start,
            end |-> sentence_positions[Head(pred) + 1].end,
            position |-> Head(pred)]>>
         \o HighlightsUntilOutOfRange(Tail(pred), doc_sents, sentence_positions)

RECURSIVE HighlightsOf(_, _, _)
HighlightsOf(pred, doc_sents, sentence_positions) ==
    IF pred = <<>> THEN <<>>
    ELSE (IF InRange(Head(pred), doc_sents)
          THEN <<[start |-> sentence_positions[Head(pred) + 1].start,
                  end |-> sentence_positions[Head(pred) + 1].end,
                  position |-> Head(pred)]>>
          ELSE <<>>)
         \o HighlightsOf(Tail(pred), doc_sents, sentence_positions)

\* the sentence_preds[0] that is resolved: the first row of the batch
ProcessResults(sentence_preds, doc_sents, sentence_positions) ==
    IF Len(sentence_preds) > 0 /\ Len(sentence_preds[1]) > 0
    THEN HighlightsOf(sentence_preds[1], doc_sents, sentence_positions)
    ELSE <<>>

(***************************************************************************)
(* State                                                                   *)
(***************************************************************************)
VARIABLES
    pc,                 \* where the call of _process_single / forward stands
    question_len,       \* number of sub-word tokens of the question
    context,            \* the passage
    doc_sents,          \* nltk.sent_tokenize(context)
    sentence_positions, \* (start_pos, end_pos) per sentence
    sentence_ids,       \* word-level sentence ids
    words,              \* the passage's words
    dataset,            \* example_dataset after map(prepare_input_features)
    features,           \* the collated batch given to the model
    relevance,          \* the classifier's probabilities, per window and row
    sentence_preds,     \* what model(**features) returned
    highlights,         \* result["highlights"]
    tokenizer_called,   \* the tokenizer ran in this call
    model_called        \* the model ran in this call

pipeline_vars ==
    <<pc, question_len, context, doc_sents, sentence_positions, sentence_ids,
      words, dataset, features, relevance, sentence_preds,
      highlights, tokenizer_called, model_called>>

\* the process-wide state of semantic_highlighting_handler.py and the
\* invocations of handle(data, context) running in the process
VARIABLES
    model,              \* global model: 0 for None, else the object's id
    tokenizer,          \* global tokenizer: "none", "hub" or "local"
    device,             \* global device: "none" or "set"
    objects,            \* the model objects made so far, by id
    hpc,                \* where each thread's invocation of handle stands
    invocation,         \* the number of the invocation a thread runs
    state_dict,         \* handle's local state_dict, per thread
    rows,               \* rows of data a thread has still to process
    started,            \* invocations of handle started so far
    init_by,            \* invocations that ran the initialization block
    writers,            \* invocations that wrote model, tokenizer or device
    uses,               \* what every inference and tokenization found
    outcome             \* per invocation: "running", "returned" or "raised"

handle_vars ==
    <<model, tokenizer, device, objects, hpc, invocation, state_dict, rows,
      started, init_by, writers, uses, outcome>>

Threads == {1, 2}

\* the request loop of a harness: the rows it was given and what it made
\* of them
VARIABLES
    harness,            \* "handle" or "inference": whose request loop runs
    data,               \* the payloads of the rows taken so far
    results,            \* the harness's list results
    calls,              \* the calls of _process_single, <<row, item>> each
    rpc                 \* "idle", "rows", "returned" or "raised"

request_vars == <<harness, data, results, calls, rpc>>

vars == <<pipeline_vars, handle_vars, request_vars>>

(***************************************************************************)
(* Inputs                                                                  *)
(***************************************************************************)
Strings(n) == SeqsUpTo(Chars, n)

Blank(s) == \A i \in DOMAIN s : s[i] = " "

\* a sentence text: not empty, no white space at either end
SentenceTexts(n) ==
    {s \in Strings(n) : s # <<>> /\ s[1] # " " /\ s[Len(s)] # " "}

RECURSIVE TotalLen(_)
TotalLen(ss) == IF ss = <<>> THEN 0 ELSE Len(Head(ss)) + TotalLen(Tail(ss))

\* nltk.sent_tokenize, an external segmenter: no sentence of a blank
\* passage; else at least one sentence.  The texts need not occur in the
\* passage (a segmenter may normalise them) but together they are no
\* longer than the passage.
SentTokenize(ctx) ==
    IF Blank(ctx) THEN {<<>>}
    ELSE {ss \in SeqsUpTo(SentenceTexts(Len(ctx)), MaxSents) :
             ss # <<>> /\ TotalLen(ss) <= Len(ctx)}

\* the process after a successful initialization, no invocation running:
\* where _process_single and forward are called from
LoadedProcess ==
    /\ model = 1
    /\ tokenizer = "hub"
    /\ device = "set"
    /\ objects = <<[weights |-> "file", moved |-> TRUE, eval |-> TRUE]>>
    /\ hpc = [t \in Threads |-> "idle"]
    /\ invocation = [t \in Threads |-> 0]
    /\ state_dict = [t \in Threads |-> "none"]
    /\ rows = [t \in Threads |-> 0]
    /\ started = 1
    /\ init_by = {1}
    /\ writers = {1}
    /\ uses = {}
    /\ outcome = <<"returned">>

\* no request loop is running
NoRequest ==
    /\ harness = "handle"
    /\ data = <<>>
    /\ results = <<>>
    /\ calls = <<>>
    /\ rpc = "idle"

(***************************************************************************)
(* _process_single(question, context), step by step                        *)
(***************************************************************************)
Init ==
    /\ LoadedProcess
    /\ NoRequest
    /\ pc = "start"
    /\ question_len \in QLens
    /\ context \in Strings(MaxCtxLen)
    /\ doc_sents = <<>>
    /\ sentence_positions = <<>>
    /\ sentence_ids = <<>>
    /\ words = <<>>
    /\ dataset = <<>>
    /\ features = <<>>
    /\ relevance = <<>>
    /\ sentence_preds = <<>>
    /\ highlights = <<>>
    /\ tokenizer_called = FALSE
    /\ model_called = FALSE

\* faulty variant of Segment: no early return when there is no sentence
SegmentNoReturn ==
    /\ pc = "start"
    /\ \E ss \in SentTokenize(context) :
          /\ doc_sents' = ss
          /\ pc' = "segmented"
    /\ highlights' = <<>>
    /\ UNCHANGED <<question_len, context, sentence_positions, sentence_ids,
                   words, dataset, features, relevance,
                   sentence_preds, tokenizer_called, model_called>>
    /\ UNCHANGED <<handle_vars, request_vars>>

\* doc_sents = nltk.sent_tokenize(context); if not doc_sents: return
Segment ==
    /\ pc = "start"
    /\ \E ss \in SentTokenize(context) :
          /\ doc_sents' = ss
          /\ pc' = IF ss = <<>> THEN "done" ELSE "segmented"
    /\ highlights' = <<>>
    /\ UNCHANGED <<question_len, context, sentence_positions, sentence_ids,
                   words, dataset, features, relevance,
                   sentence_preds, tokenizer_called, model_called>>
    /\ UNCHANGED <<handle_vars, request_vars>>

\* "Calculate sentence positions" and "Prepare data"
Tag ==
    /\ pc = "segmented"
    /\ sentence_positions' = SentencePositions(context, doc_sents)
    /\ words' = Words(doc_sents)
    /\ sentence_ids' = WordLevelSentenceIds(doc_sents)
    /\ pc' = "tagged"
    /\ UNCHANGED <<question_len, context, doc_sents, dataset, features,
                   relevance, sentence_preds, highlights,
                   tokenizer_called, model_called>>
    /\ UNCHANGED <<handle_vars, request_vars>>

\* example_dataset.map(partial(prepare_input_features, tokenizer, ...))
TokenizeStep ==
    /\ pc = "tagged"
    /\ \E tok_per_word \in [DOMAIN words -> 0..MaxTokPerWord] :
          dataset' = PrepareInputFeatures(question_len, tok_per_word,
                                          sentence_ids, MAX_LENGTH, STRIDE)
    /\ tokenizer_called' = TRUE
    /\ pc' = "tokenized"
    /\ UNCHANGED <<question_len, context, doc_sents, sentence_positions,
                   sentence_ids, words, features, relevance,
                   sentence_preds, highlights, model_called>>
    /\ UNCHANGED <<handle_vars, request_vars>>

\* example = example_dataset[0]; features = DataCollatorWithPadding(...)([example])
CollateStep ==
    /\ pc = "tokenized"
    /\ features' = Collate(<<dataset[1]>>)
    /\ pc' = "collated"
    /\ UNCHANGED <<question_len, context, doc_sents, sentence_positions,
                   sentence_ids, words, dataset, relevance,
                   sentence_preds, highlights, tokenizer_called, model_called>>
    /\ UNCHANGED <<handle_vars, request_vars>>

\* sentence_preds = model(**features), under torch.no_grad()
Inference ==
    /\ pc = "collated"
    /\ relevance' \in ProbsOf(features.sentence_ids)
    /\ model_called' = TRUE
    /\ LET out == Forward(features.sentence_ids, relevance')
       IN  /\ sentence_preds' = out.preds
           /\ pc' = IF out.raised THEN "raised" ELSE "inferred"
    /\ UNCHANGED <<question_len, context, doc_sents, sentence_positions,
                   sentence_ids, words, dataset, features, highlights,
                   tokenizer_called>>
    /\ UNCHANGED <<handle_vars, request_vars>>

\* "Process results"; return {"highlights": highlights}
Resolve ==
    /\ pc = "inferred"
    /\ highlights' = ProcessResults(sentence_preds, doc_sents, sentence_positions)
    /\ pc' = "done"
    /\ UNCHANGED <<question_len, context, doc_sents, sentence_positions,
                   sentence_ids, words, dataset, features, relevance,
                   sentence_preds, tokenizer_called, model_called>>
    /\ UNCHANGED <<handle_vars, request_vars>>

Next == Segment \/ Tag \/ TokenizeStep \/ CollateStep \/ Inference \/ Resolve

Spec == Init /\ [][Next]_vars

(***************************************************************************)
(* forward() taken alone, on any batch of windows                          *)
(***************************************************************************)
\* sentence ids of the passage tokens of a window: they never decrease
NonDecreasing(s) == \A i \in 1..(Len(s) - 1) : s[i] <= s[i + 1]

\* a window's sentence_ids: NONE for [CLS] question [SEP], the passage
\* tokens' ids, NONE for the closing [SEP]
WindowIdRows ==
    {<<NONE, NONE, NONE>> \o s \o <<NONE>> :
        s \in {t \in SeqsUpTo(0..MaxSid, MaxRowTok) : NonDecreasing(t)}}

Batches == {b \in SeqsUpTo(WindowIdRows, MaxBatch) : b # <<>>}

InitForward ==
    /\ LoadedProcess
    /\ NoRequest
    /\ pc = "batch"
    /\ \E b \in Batches :
          features = [sentence_ids |-> PadSequence(b, NONE)]
    /\ question_len = 1
    /\ context = <<>>
    /\ doc_sents = <<>>
    /\ sentence_positions = <<>>
    /\ sentence_ids = <<>>
    /\ words = <<>>
    /\ dataset = <<>>
    /\ relevance = <<>>
    /\ sentence_preds = <<>>
    /\ highlights = <<>>
    /\ tokenizer_called = FALSE
    /\ model_called = FALSE

\* model(**features) on the batch
ForwardBatch ==
    /\ pc = "batch"
    /\ relevance' \in ProbsOf(features.sentence_ids)
    /\ model_called' = TRUE
    /\ LET out == Forward(features.sentence_ids, relevance')
       IN  /\ sentence_preds' = out.preds
           /\ pc' = IF out.raised THEN "raised" ELSE "forwarded"
    /\ UNCHANGED <<question_len, context, doc_sents, sentence_positions,
                   sentence_ids, words, dataset, features,
                   highlights, tokenizer_called>>
    /\ UNCHANGED <<handle_vars, request_vars>>

NextForward == ForwardBatch

SpecForward == InitForward /\ [][NextForward]_vars

(***************************************************************************)
(* Properties of the selector, under SpecForward                           *)
(***************************************************************************)
\* the windows of the batch the model was called with
BatchWindows == DOMAIN features.sentence_ids
\* n_sent and offset of window i, and its probabilities at the n_sent
\* positions that stand for sentences
NSent(i) == NumSents(features.sentence_ids[i])
Offset(i) == GlobalOffset(features.sentence_ids[i])
RelProbs(i) == SubSeq(relevance[i], 1, NSent(i))
Selected(i) == Range(sentence_preds[i])
Forwarded == pc = "forwarded"

\* C2: backoff guarantee.  A window with n_sent >= 1 whose highest
\* probability among its n_sent positions is at least 0.05 gets at least
\* one sentence; when no position reaches 0.5 it gets exactly one, the
\* first position of the highest probability (rebased by the offset).
C2_BackoffGuarantee ==
    Forwarded =>
        \A i \in BatchWindows :
            (NSent(i) >= 1 /\ \E j \in 1..NSent(i) : RelProbs(i)[j] >= 5) =>
                /\ Len(sentence_preds[i]) >= 1
                /\ (\A j \in 1..NSent(i) : RelProbs(i)[j] < 50) =>
                      \E j \in 1..NSent(i) :
                          /\ sentence_preds[i] = <<(j - 1) + Offset(i)>>
                          /\ \A k \in 1..NSent(i) : RelProbs(i)[k] <= RelProbs(i)[j]
                          /\ \A k \in 1..(j - 1) : RelProbs(i)[k] < RelProbs(i)[j]

\* a window selected by backoff alone, its highest probability tied between
\* two positions
C2_Witness ==
    /\ Forwarded
    /\ \E i \in BatchWindows :
          /\ NSent(i) >= 2
          /\ \A j \in 1..NSent(i) : RelProbs(i)[j] < 50
          /\ \E j, k \in 1..NSent(i) :
                /\ j < k
                /\ RelProbs(i)[j] = RelProbs(i)[k]
                /\ RelProbs(i)[j] >= 5
                /\ \A m \in 1..NSent(i) : RelProbs(i)[m] <= RelProbs(i)[j]
          /\ Len(sentence_preds[i]) = 1

\* C3: no-selection case.  A window whose n_sent probabilities are all
\* below 0.05 gets the empty selection.
C3_NoSelection ==
    Forwarded =>
        \A i \in BatchWindows :
            (\A j \in 1..NSent(i) : RelProbs(i)[j] < 5) =>
                sentence_preds[i] = <<>>

\* a window with sentences, all of them below the floor, and none selected
C3_Witness ==
    /\ Forwarded
    /\ \E i \in BatchWindows :
          /\ NSent(i) >= 2
          /\ \A j \in 1..NSent(i) : RelProbs(i)[j] < 5
          /\ sentence_preds[i] = <<>>

\* C4: threshold selection.  When some position of the window reaches 0.5
\* the selected local positions are exactly those at or above 0.5.
C4_ThresholdSelection ==
    Forwarded =>
        \A i \in BatchWindows :
            (\E j \in 1..NSent(i) : RelProbs(i)[j] >= 50) =>
                {g - Offset(i) : g \in Selected(i)}
                    = {j - 1 : j \in {k \in 1..NSent(i) : RelProbs(i)[k] >= 50}}

\* a window with one position at 0.5 exactly and another just below it
C4_Witness ==
    /\ Forwarded
    /\ \E i \in BatchWindows :
          /\ \E j, k \in 1..NSent(i) : RelProbs(i)[j] = 50 /\ RelProbs(i)[k] = 49
          /\ Len(sentence_preds[i]) >= 1
          /\ Len(sentence_preds[i]) < NSent(i)

(***************************************************************************)
(* Properties of _process_single, under Spec                               *)
(***************************************************************************)
Returned == pc = "done"
Positioned == pc \notin {"start", "segmented"} /\ doc_sents # <<>>
\* the sentence indices of the returned highlights
HighlightedSentences == {highlights[i].position : i \in DOMAIN highlights}
\* the probabilities the classifier may give on window w taken alone, and
\* what the selector then gives on it
RowProbs(w) == [1..MaxSentences(<<dataset[w].sentence_ids>>) -> ProbLevels]
WindowSelection(w, p) ==
    Range(Forward(<<dataset[w].sentence_ids>>, <<p>>).preds[1])
\* sentence i (1-based) was not found by context.find and sits at the cursor
ByFallback(i) ==
    Find(context, doc_sents[i],
         IF i = 1 THEN 0 ELSE sentence_positions[i - 1].end) = NotFound

\* C1: for a passage of more than one token window the highlighted
\* sentences are the union over all its windows of the sentence indices
\* selected in each window: every highlighted sentence is selected in the
\* first window, and whatever the classifier gives on a later window, the
\* sentences selected there are highlighted.
C1_UnionOverWindows ==
    (Returned /\ Len(dataset) > 1) =>
        /\ HighlightedSentences \subseteq WindowSelection(1, relevance[1])
        /\ \A w \in 2..Len(dataset) : \A p \in RowProbs(w) :
              WindowSelection(w, p) \subseteq HighlightedSentences

\* C5: span validity.  Every returned highlight lies inside the context,
\* 0 <= start <= end <= len(context), however the sentence was located.
C5_SpanValidity ==
    Returned =>
        \A i \in DOMAIN highlights :
            /\ 0 <= highlights[i].start
            /\ highlights[i].start <= highlights[i].end
            /\ highlights[i].end <= Len(context)

\* C6: the sentence spans of a passage are ordered and do not overlap:
\* end(i) <= start(i+1) for consecutive sentences, whether found by the
\* substring search or placed by the cursor fallback.
C6_SpansOrdered ==
    Positioned =>
        /\ Len(sentence_positions) = Len(doc_sents)
        /\ \A i \in 1..(Len(sentence_positions) - 1) :
              sentence_positions[i].end <= sentence_positions[i + 1].start

\* two sentences, one found by the search and one placed by the fallback
C6_Witness ==
    /\ Positioned
    /\ Len(doc_sents) >= 2
    /\ \E i, j \in DOMAIN doc_sents : ByFallback(i) /\ ~ByFallback(j)

\* C7: the returned highlights are in strictly ascending sentence-index
\* order, no sentence index twice.
C7_AscendingHighlights ==
    Returned =>
        \A i, j \in DOMAIN highlights :
            i < j => highlights[i].position < highlights[j].position

\* a call that returned two highlights
C7_Witness == Returned /\ Len(highlights) >= 2

\* C8: when the segmentation yields no sentence (an empty context gives
\* none) the call has returned the empty highlight list, not raised, and
\* neither the tokenizer nor the model was invoked.
C8_EmptyReturnsEarly ==
    (pc # "start" /\ doc_sents = <<>>) =>
        /\ Returned
        /\ highlights = <<>>
        /\ ~tokenizer_called
        /\ ~model_called

\* the call on the empty context has returned
C8_Witness == Returned /\ context = <<>> /\ doc_sents = <<>> /\ highlights = <<>>

(***************************************************************************)
(* handle(data, context) of semantic_highlighting_handler.py: the lazy     *)
(* initialization of the global model, tokenizer and device, then the rows *)
(* of data.  Every statement that reads or writes a global is one step; a  *)
(* thread runs one invocation at a time.  _process_single is taken here by *)
(* its reads of the globals.                                               *)
(***************************************************************************)
InitHandle ==
    /\ NoRequest
    /\ model = 0
    /\ tokenizer = "none"
    /\ device = "none"
    /\ objects = <<>>
    /\ hpc = [t \in Threads |-> "idle"]
    /\ invocation = [t \in Threads |-> 0]
    /\ state_dict = [t \in Threads |-> "none"]
    /\ rows = [t \in Threads |-> 0]
    /\ started = 0
    /\ init_by = {}
    /\ writers = {}
    /\ uses = {}
    /\ outcome = <<>>
    /\ pc = "idle"
    /\ question_len = 1
    /\ context = <<>>
    /\ doc_sents = <<>>
    /\ sentence_positions = <<>>
    /\ sentence_ids = <<>>
    /\ words = <<>>
    /\ dataset = <<>>
    /\ features = <<>>
    /\ relevance = <<>>
    /\ sentence_preds = <<>>
    /\ highlights = <<>>
    /\ tokenizer_called = FALSE
    /\ model_called = FALSE

\* an exception leaves handle: the invocation is over, nothing is undone
Raise(t) ==
    /\ hpc' = [hpc EXCEPT ![t] = "idle"]
    /\ outcome' = [outcome EXCEPT ![invocation[t]] = "raised"]
    /\ rows' = [rows EXCEPT ![t] = 0]
    /\ state_dict' = [state_dict EXCEPT ![t] = "none"]

\* handle is called; "if data is None: data = []"
Begin(t) ==
    /\ hpc[t] = "idle"
    /\ started < MaxCalls
    /\ started' = started + 1
    /\ invocation' = [invocation EXCEPT ![t] = started + 1]
    /\ outcome' = Append(outcome, "running")
    /\ \E n \in 0..MaxRows : rows' = [rows EXCEPT ![t] = n]
    /\ hpc' = [hpc EXCEPT ![t] = "check"]
    /\ UNCHANGED <<model, tokenizer, device, objects, state_dict, init_by,
                   writers, uses>>
    /\ UNCHANGED <<pipeline_vars, request_vars>>

\* if model is None:
CheckModel(t) ==
    /\ hpc[t] = "check"
    /\ IF model = 0
       THEN /\ hpc' = [hpc EXCEPT ![t] = "device"]
            /\ init_by' = init_by \cup {invocation[t]}
       ELSE /\ hpc' = [hpc EXCEPT ![t] = "rows"]
            /\ UNCHANGED init_by
    /\ UNCHANGED <<model, tokenizer, device, objects, invocation, state_dict,
                   rows, started, writers, uses, outcome>>
    /\ UNCHANGED <<pipeline_vars, request_vars>>

\* device = torch.device(...)
SetDevice(t) ==
    /\ hpc[t] = "device"
    /\ device' = "set"
    /\ writers' = writers \cup {invocation[t]}
    /\ hpc' = [hpc EXCEPT ![t] = "tokenizer"]
    /\ UNCHANGED <<model, tokenizer, objects, invocation, state_dict, rows,
                   started, init_by, uses, outcome>>
    /\ UNCHANGED <<pipeline_vars, request_vars>>

\* tokenizer = AutoTokenizer.from_pretrained(hub name); on any exception
\* the local model_files are tried, and their failure leaves handle
LoadTokenizer(t) ==
    /\ hpc[t] = "tokenizer"
    /\ \/ /\ \E source \in {"hub", "local"} : tokenizer' = source
          /\ writers' = writers \cup {invocation[t]}
          /\ hpc' = [hpc EXCEPT ![t] = "config"]
          /\ UNCHANGED <<state_dict, rows, outcome>>
       \/ /\ Raise(t)
          /\ UNCHANGED <<tokenizer, writers>>
    /\ UNCHANGED <<model, device, objects, invocation, started, init_by, uses>>
    /\ UNCHANGED <<pipeline_vars, request_vars>>

\* config = AutoConfig.from_pretrained(...), which may raise;
\* model = BertTaggerForSentenceExtractionWithBackoff(config): a new
\* object, weights as constructed, in training mode, not yet on the device
NewModel(t) ==
    /\ hpc[t] = "config"
    /\ \/ /\ objects' = Append(objects,
                               [weights |-> "init", moved |-> FALSE, eval |-> FALSE])
          /\ model' = Len(objects) + 1
          /\ writers' = writers \cup {invocation[t]}
          /\ hpc' = [hpc EXCEPT ![t] = "weights"]
          /\ UNCHANGED <<state_dict, rows, outcome>>
       \/ /\ Raise(t)
          /\ UNCHANGED <<objects, model, writers>>
    /\ UNCHANGED <<tokenizer, device, invocation, started, init_by, uses>>
    /\ UNCHANGED <<pipeline_vars, request_vars>>

\* state_dict: torch.load / load_file of a weight file, which may raise, or
\* with no weight file model.state_dict(), the weights as constructed
ReadWeights(t) ==
    /\ hpc[t] = "weights"
    /\ \/ /\ \E found \in {"file", "random"} :
                state_dict' = [state_dict EXCEPT ![t] = found]
          /\ hpc' = [hpc EXCEPT ![t] = "load_state"]
          /\ UNCHANGED <<rows, outcome>>
       \/ Raise(t)
    /\ UNCHANGED <<model, tokenizer, device, objects, invocation, started,
                   init_by, writers, uses>>
    /\ UNCHANGED <<pipeline_vars, request_vars>>

\* model.load_state_dict(state_dict, strict=False), on the object the
\* global names now; a tensor of another shape makes it raise
LoadStateDict(t) ==
    /\ hpc[t] = "load_state"
    /\ \/ /\ objects' = [objects EXCEPT ![model].weights = state_dict[t]]
          /\ writers' = writers \cup {invocation[t]}
          /\ hpc' = [hpc EXCEPT ![t] = "to_device"]
          /\ UNCHANGED <<state_dict, rows, outcome>>
       \/ /\ Raise(t)
          /\ UNCHANGED <<objects, writers>>
    /\ UNCHANGED <<model, tokenizer, device, invocation, started, init_by, uses>>
    /\ UNCHANGED <<pipeline_vars, request_vars>>

\* model.to(device)
ToDevice(t) ==
    /\ hpc[t] = "to_device"
    /\ objects' = [objects EXCEPT ![model].moved = TRUE]
    /\ writers' = writers \cup {invocation[t]}
    /\ hpc' = [hpc EXCEPT ![t] = "eval"]
    /\ UNCHANGED <<model, tokenizer, device, invocation, state_dict, rows,
                   started, init_by, uses, outcome>>
    /\ UNCHANGED <<pipeline_vars, request_vars>>

\* model.eval()
Eval(t) ==
    /\ hpc[t] = "eval"
    /\ objects' = [objects EXCEPT ![model].eval = TRUE]
    /\ writers' = writers \cup {invocation[t]}
    /\ hpc' = [hpc EXCEPT ![t] = "rows"]
    /\ UNCHANGED <<model, tokenizer, device, invocation, state_dict, rows,
                   started, init_by, uses, outcome>>
    /\ UNCHANGED <<pipeline_vars, request_vars>>

\* for row in data: ... ; return results
NextRow(t) ==
    /\ hpc[t] = "rows"
    /\ IF rows[t] = 0
       THEN /\ hpc' = [hpc EXCEPT ![t] = "idle"]
            /\ outcome' = [outcome EXCEPT ![invocation[t]] = "returned"]
            /\ state_dict' = [state_dict EXCEPT ![t] = "none"]
       ELSE /\ hpc' = [hpc EXCEPT ![t] = "prepare"]
            /\ UNCHANGED <<outcome, state_dict>>
    /\ UNCHANGED <<model, tokenizer, device, objects, invocation, rows,
                   started, init_by, writers, uses>>
    /\ UNCHANGED <<pipeline_vars, request_vars>>

\* _process_single up to features.to(device): reads tokenizer and device
PrepareRow(t) ==
    /\ hpc[t] = "prepare"
    /\ uses' = uses
                 \cup {IF tokenizer = "none" THEN "tokenizer_unset" ELSE "tokenizer_set"}
                 \cup {IF device = "none" THEN "device_unset" ELSE "device_set"}
    /\ hpc' = [hpc EXCEPT ![t] = "infer"]
    /\ UNCHANGED <<model, tokenizer, device, objects, invocation, state_dict,
                   rows, started, init_by, writers, outcome>>
    /\ UNCHANGED <<pipeline_vars, request_vars>>

\* what model(**features) finds of the object the global names
ModelUse(m) ==
    IF m.weights = "init" THEN "model_unloaded"
    ELSE IF ~m.eval THEN "model_training"
    ELSE IF ~m.moved THEN "model_not_moved"
    ELSE "model_ready"

\* sentence_preds = model(**features)
InferRow(t) ==
    /\ hpc[t] = "infer"
    /\ uses' = uses \cup {ModelUse(objects[model])}
    /\ rows' = [rows EXCEPT ![t] = rows[t] - 1]
    /\ hpc' = [hpc EXCEPT ![t] = "rows"]
    /\ UNCHANGED <<model, tokenizer, device, objects, invocation, state_dict,
                   started, init_by, writers, outcome>>
    /\ UNCHANGED <<pipeline_vars, request_vars>>

HandleStep(t) ==
    \/ Begin(t)
    \/ CheckModel(t)
    \/ SetDevice(t)
    \/ LoadTokenizer(t)
    \/ NewModel(t)
    \/ ReadWeights(t)
    \/ LoadStateDict(t)
    \/ ToDevice(t)
    \/ Eval(t)
    \/ NextRow(t)
    \/ PrepareRow(t)
    \/ InferRow(t)

\* invocations on any thread, interleaved statement by statement
NextHandle == \E t \in Threads : HandleStep(t)

SpecHandle == InitHandle /\ [][NextHandle]_vars

\* invocations one after the other
NextSequential == HandleStep(1)

SpecSequential == InitHandle /\ [][NextSequential]_vars

(***************************************************************************)
(* Properties of handle's initialization                                   *)
(***************************************************************************)
NoneRaised == \A i \in DOMAIN outcome : outcome[i] # "raised"

\* C9: load-then-freeze.  In a sequence of invocations of handle the
\* initialization block runs in the first invocation only, and no later
\* invocation writes the global model, tokenizer or device (checked under
\* SpecSequential).
C9_LoadThenFreeze ==
    /\ init_by \subseteq {1}
    /\ writers \subseteq {1}

\* C10: under any interleaving of invocations that start while the model
\* is unloaded, no inference runs on a model object whose weights are not
\* yet loaded or that is not yet in eval mode, and no invocation uses an
\* unset tokenizer or device (checked under SpecHandle, on the runs in
\* which no load fails).
C10_SafelyShared ==
    NoneRaised =>
        uses \cap {"model_unloaded", "model_training",
                   "tokenizer_unset", "device_unset"} = {}

\* an invocation returned its results after an earlier one had raised
ServedAfterFailure ==
    \E i, j \in DOMAIN outcome :
        i < j /\ outcome[i] = "raised" /\ outcome[j] = "returned"

\* C11: a failure to load the tokenizer or the weights is fatal.  No
\* invocation returns results after an initialization has raised (the load
\* is not retried and the process serves nothing afterwards), the tokenizer
\* is never the one of a substitute source, and the model never carries
\* the weights it was constructed with in place of a weight file (checked
\* under SpecSequential).
C11_LoadFailureFatal ==
    /\ ~ServedAfterFailure
    /\ tokenizer # "local"
    /\ \A m \in DOMAIN objects : objects[m].weights # "random"

(***************************************************************************)
(* The request loops: "for row in data" of handle in                       *)
(* semantic_highlighting_handler.py, and preprocess / inference of         *)
(* SemanticHighlighterHandler in torchserve_handler.py.  A payload is      *)
(* taken by its shape: a list of items or an object with some keys; an     *)
(* item by the fields it carries.  A call of _process_single is recorded   *)
(* as <<row, item>>, which also stands for the highlight list it returns.  *)
(***************************************************************************)
MaxItems == 2
MaxData == 2

Fields == {"question", "context"}
Keys == {"question", "context", "contexts", "inputs"}
ItemLists == SeqsUpTo(SUBSET Fields, MaxItems)

\* the payloads of a row: input_data after json.loads
Payloads ==
    {[is_list |-> TRUE, keys |-> {}, items |-> it, inputs_is_list |-> TRUE,
      n_contexts |-> 0] : it \in ItemLists}
    \cup
    {p \in [is_list : {FALSE}, keys : SUBSET Keys, items : ItemLists,
            inputs_is_list : BOOLEAN, n_contexts : 0..MaxItems] :
        /\ "inputs" \notin p.keys => (p.items = <<>> /\ p.inputs_is_list)
        /\ ~p.inputs_is_list => p.items = <<>>
        /\ "contexts" \notin p.keys => p.n_contexts = 0}

\* row.get("data") or row.get("body"): an empty list or object is falsy,
\* and the row has no other entry, so input_data is None
Falsy(p) == IF p.is_list THEN p.items = <<>> ELSE p.keys = {}

\* the items of a batch up to the first that lacks a field: item["question"]
\* or item["context"] raises KeyError there
RECURSIVE GoodPrefixLen(_)
GoodPrefixLen(items) ==
    IF items = <<>> \/ ~(Fields \subseteq Head(items)) THEN 0
    ELSE 1 + GoodPrefixLen(Tail(items))

\* the pairs of row r, items 1..n
Pairs(r, n) == [k \in 1..n |-> <<r, k>>]

\* entries of results
HighlightsEntry(nested, pairs) ==
    [tag |-> "highlights", nested |-> nested, pairs |-> pairs, message |-> ""]
ErrorEntry(message) ==
    [tag |-> "error", nested |-> FALSE, pairs |-> <<>>, message |-> message]

\* the process is loaded and no call of _process_single is in progress
IdlePipeline ==
    /\ pc = "idle"
    /\ question_len = 1
    /\ context = <<>>
    /\ doc_sents = <<>>
    /\ sentence_positions = <<>>
    /\ sentence_ids = <<>>
    /\ words = <<>>
    /\ dataset = <<>>
    /\ features = <<>>
    /\ relevance = <<>>
    /\ sentence_preds = <<>>
    /\ highlights = <<>>
    /\ tokenizer_called = FALSE
    /\ model_called = FALSE

InitRequests ==
    /\ LoadedProcess
    /\ IdlePipeline
    /\ harness \in {"handle", "inference"}
    /\ data = <<>>
    /\ results = <<>>
    /\ calls = <<>>
    /\ rpc = "rows"

\* the loop of harness h is at a row of data
AtRow(h) ==
    /\ rpc = "rows"
    /\ harness = h
    /\ Len(data) < MaxData

\* the row's payload is taken
TakeRow(p) ==
    /\ data' = Append(data, p)
    /\ UNCHANGED harness
    /\ UNCHANGED <<pipeline_vars, handle_vars>>

\* an exception leaves the harness
RaiseFromRow ==
    /\ rpc' = "raised"
    /\ UNCHANGED results

\* "for item in ...: result = _process_single(item["question"],
\* item["context"]); batch_results.append(result["highlights"])" and then
\* results.append({"highlights": batch_results})
BatchLoop(items) ==
    LET r == Len(data) + 1
        n == GoodPrefixLen(items)
    IN  /\ calls' = calls \o Pairs(r, n)
        /\ IF n = Len(items)
           THEN /\ results' = Append(results, HighlightsEntry(TRUE, Pairs(r, n)))
                /\ UNCHANGED rpc
           ELSE RaiseFromRow

\* handle: input_data is None, and '"inputs" in input_data' raises TypeError
HandleNone ==
    /\ AtRow("handle")
    /\ \E p \in Payloads :
        /\ TakeRow(p)
        /\ Falsy(p)
        /\ RaiseFromRow
        /\ UNCHANGED calls

\* handle: if isinstance(input_data, list)
HandleList ==
    /\ AtRow("handle")
    /\ \E p \in Payloads :
        /\ TakeRow(p)
        /\ ~Falsy(p) /\ p.is_list
        /\ BatchLoop(p.items)

\* handle: elif "inputs" in input_data
HandleInputs ==
    /\ AtRow("handle")
    /\ \E p \in Payloads :
        /\ TakeRow(p)
        /\ ~Falsy(p) /\ ~p.is_list /\ "inputs" \in p.keys
        /\ IF p.inputs_is_list
           THEN BatchLoop(p.items)
           ELSE /\ results' = Append(results, ErrorEntry("Unexpected inputs format"))
                /\ UNCHANGED <<calls, rpc>>

\* handle: elif "question" in input_data and "context" in input_data
HandleSingle ==
    /\ AtRow("handle")
    /\ \E p \in Payloads :
        /\ TakeRow(p)
        /\ ~Falsy(p) /\ ~p.is_list /\ "inputs" \notin p.keys
        /\ Fields \subseteq p.keys
        /\ calls' = Append(calls, <<Len(data) + 1, 1>>)
        /\ results' = Append(results,
                             HighlightsEntry(FALSE, <<<<Len(data) + 1, 1>>>>))
        /\ UNCHANGED rpc

\* handle: else: results.append({"error": "Invalid input format"})
HandleInvalid ==
    /\ AtRow("handle")
    /\ \E p \in Payloads :
        /\ TakeRow(p)
        /\ ~Falsy(p) /\ ~p.is_list /\ "inputs" \notin p.keys
        /\ ~(Fields \subseteq p.keys)
        /\ results' = Append(results, ErrorEntry("Invalid input format"))
        /\ UNCHANGED <<calls, rpc>>

\* inference: input_data is None, and '"question" in input_data' raises
InferenceNone ==
    /\ AtRow("inference")
    /\ \E p \in Payloads :
        /\ TakeRow(p)
        /\ Falsy(p)
        /\ RaiseFromRow
        /\ UNCHANGED calls

\* inference: if "question" in input_data and "contexts" in input_data;
\* _process_batch calls _process_single once per context
InferenceContexts ==
    /\ AtRow("inference")
    /\ \E p \in Payloads :
        /\ TakeRow(p)
        /\ ~Falsy(p) /\ ~p.is_list /\ {"question", "contexts"} \subseteq p.keys
        /\ calls' = calls \o Pairs(Len(data) + 1, p.n_contexts)
        /\ results' = Append(results,
                             HighlightsEntry(TRUE, Pairs(Len(data) + 1, p.n_contexts)))
        /\ UNCHANGED rpc

\* inference: elif "inputs" in input_data.  The two comprehensions read
\* every item's question and context before _process_batch is called; an
\* item without the field, or inputs that is a string, raises
InferenceInputs ==
    /\ AtRow("inference")
    /\ \E p \in Payloads :
        /\ TakeRow(p)
        /\ ~Falsy(p) /\ ~p.is_list /\ ~({"question", "contexts"} \subseteq p.keys)
        /\ "inputs" \in p.keys
        /\ IF p.inputs_is_list /\ GoodPrefixLen(p.items) = Len(p.items)
           THEN /\ calls' = calls \o Pairs(Len(data) + 1, Len(p.items))
                /\ results' = Append(results,
                                     HighlightsEntry(TRUE, Pairs(Len(data) + 1, Len(p.items))))
                /\ UNCHANGED rpc
           ELSE /\ RaiseFromRow
                /\ UNCHANGED calls

\* inference: elif "question" in input_data and "context" in input_data
InferenceSingle ==
    /\ AtRow("inference")
    /\ \E p \in Payloads :
        /\ TakeRow(p)
        /\ ~Falsy(p) /\ ~p.is_list /\ ~({"question", "contexts"} \subseteq p.keys)
        /\ "inputs" \notin p.keys
        /\ Fields \subseteq p.keys
        /\ calls' = Append(calls, <<Len(data) + 1, 1>>)
        /\ results' = Append(results,
                             HighlightsEntry(FALSE, <<<<Len(data) + 1, 1>>>>))
        /\ UNCHANGED rpc

\* inference: else: raise ValueError("Invalid input format"); a list of
\* items has none of the keys and ends here too
InferenceInvalid ==
    /\ AtRow("inference")
    /\ \E p \in Payloads :
        /\ TakeRow(p)
        /\ ~Falsy(p)
        /\ \/ p.is_list
           \/ /\ ~({"question", "contexts"} \subseteq p.keys)
              /\ "inputs" \notin p.keys
              /\ ~(Fields \subseteq p.keys)
        /\ RaiseFromRow
        /\ UNCHANGED calls

\* the rows are done: return results
ReturnResults ==
    /\ rpc = "rows"
    /\ rpc' = "returned"
    /\ UNCHANGED <<harness, data, results, calls>>
    /\ UNCHANGED <<pipeline_vars, handle_vars>>

NextRequests ==
    \/ HandleNone
    \/ HandleList
    \/ HandleInputs
    \/ HandleSingle
    \/ HandleInvalid
    \/ InferenceNone
    \/ InferenceContexts
    \/ InferenceInputs
    \/ InferenceSingle
    \/ InferenceInvalid
    \/ ReturnResults

SpecRequests == InitRequests /\ [][NextRequests]_vars

(***************************************************************************)
(* Properties of the request loops, under SpecRequests                     *)
(***************************************************************************)
\* the calls of _process_single made for row r, in order
CallsOfRow(r) == SelectSeq(calls, LAMBDA c : c[1] = r)

\* some item of the list lacks the question or the context
SomeItemLacks(items) == \E k \in DOMAIN items : ~(Fields \subseteq items[k])

\* the payload lacks the question or the context field: as a single object,
\* or in an item of a batch shape
LacksField(p) ==
    \/ p.is_list /\ SomeItemLacks(p.items)
    \/ /\ ~p.is_list
       /\ "inputs" \in p.keys /\ "contexts" \notin p.keys
       /\ p.inputs_is_list /\ SomeItemLacks(p.items)
    \/ /\ ~p.is_list
       /\ p.keys \cap {"inputs", "contexts"} = {}
       /\ ~(Fields \subseteq p.keys)

\* row r ended in an error: an error entry, or an exception out of the loop
Rejected(r) ==
    IF r \in DOMAIN results THEN results[r].tag = "error" ELSE rpc = "raised"

\* C12: a request whose payload lacks the question or the context field,
\* as a single object or in one item of a batch, is rejected with an error
\* and _process_single is not called for any part of that request.
C12_MalformedRejected ==
    \A r \in DOMAIN data :
        LacksField(data[r]) => (Rejected(r) /\ CallsOfRow(r) = <<>>)

\* the four request shapes, well formed
SingleShape(p) == ~p.is_list /\ p.keys = Fields
ContextsShape(p) == ~p.is_list /\ p.keys = {"question", "contexts"}
InputsShape(p) ==
    ~p.is_list /\ p.keys = {"inputs"} /\ p.inputs_is_list /\ ~SomeItemLacks(p.items)
RawListShape(p) == p.is_list /\ ~SomeItemLacks(p.items)

\* the (question, context) pairs the payload holds
NumPairs(p) ==
    IF SingleShape(p) THEN 1
    ELSE IF ContextsShape(p) THEN p.n_contexts
    ELSE Len(p.items)

\* row r got one call per pair, in input order, and its result mirrors the
\* nesting of the payload
Mirrored(r) ==
    /\ CallsOfRow(r) = Pairs(r, NumPairs(data[r]))
    /\ r \in DOMAIN results
    /\ results[r] = HighlightsEntry(~SingleShape(data[r]),
                                    Pairs(r, NumPairs(data[r])))

\* C13: for each of the four request shapes the harness calls
\* _process_single once per (question, context) pair, and the result
\* mirrors the nesting: a flat highlight list for a single input, a list of
\* highlight lists, one per pair in input order, for a batch input.
C13_ShapesMirrored ==
    \A r \in DOMAIN data :
        (\/ SingleShape(data[r]) \/ ContextsShape(data[r])
         \/ InputsShape(data[r]) \/ RawListShape(data[r])) => Mirrored(r)

(***************************************************************************)
(* Two calls of _process_single with the same question and context, the    *)
(* model object untouched in between.  The segmenter and the tokenizer     *)
(* are functions of their arguments: the second call gets from them what   *)
(* the first got.  The classifier is one only in eval mode: forward runs   *)
(* self.dropout, and BertModel its own dropout layers, which in training   *)
(* mode draw fresh masks from torch's generator at every call.             *)
(***************************************************************************)
MaxCtxTwice == 2

\* the process as a call of _process_single can find it: thread 1 is in
\* handle's initialization, the object constructed (line 310) and its
\* weights not yet read, or the weights loaded and moved (lines 326-327)
\* and eval() not yet called; or the initialization has returned
ModelStages ==
    {[object |-> [weights |-> "init", moved |-> FALSE, eval |-> FALSE],
      at |-> "weights", state_dict |-> "none"],
     [object |-> [weights |-> "file", moved |-> TRUE, eval |-> FALSE],
      at |-> "eval", state_dict |-> "file"],
     [object |-> [weights |-> "file", moved |-> TRUE, eval |-> TRUE],
      at |-> "idle", state_dict |-> "none"]}

\* the state of handle's threads and globals at a stage
AtStage(st) ==
    /\ model = 1
    /\ tokenizer = "hub"
    /\ device = "set"
    /\ objects = <<st.object>>
    /\ hpc = [t \in Threads |-> IF t = 1 THEN st.at ELSE "idle"]
    /\ invocation = [t \in Threads |-> IF t = 1 /\ st.at # "idle" THEN 1 ELSE 0]
    /\ state_dict = [t \in Threads |-> IF t = 1 THEN st.state_dict ELSE "none"]
    /\ rows = [t \in Threads |-> 0]
    /\ started = 1
    /\ init_by = {1}
    /\ writers = {1}
    /\ uses = {}
    /\ outcome = <<IF st.at = "idle" THEN "returned" ELSE "running">>

\* the probabilities of a second forward pass over the same features
Reclassify(m, ids, first) == IF m.eval THEN {first} ELSE ProbsOf(ids)

\* _process_single as a whole, from what the segmenter (ss), the tokenizer
\* (ds) and the classifier (rel) give
ProcessSingle(ctx, ss, ds, rel) ==
    IF ss = <<>> THEN <<>>
    ELSE LET feats == Collate(<<ds[1]>>)
             out == Forward(feats.sentence_ids, rel)
         IN  ProcessResults(out.preds, ss, SentencePositions(ctx, ss))

InitTwice ==
    /\ \E st \in ModelStages : AtStage(st)
    /\ harness = "handle"
    /\ data = <<>>
    /\ results = <<>>
    /\ calls = <<>>
    /\ rpc = "rows"
    /\ pc = "start"
    /\ question_len \in QLens
    /\ context \in Strings(MaxCtxTwice)
    /\ doc_sents = <<>>
    /\ sentence_positions = <<>>
    /\ sentence_ids = <<>>
    /\ words = <<>>
    /\ dataset = <<>>
    /\ features = <<>>
    /\ relevance = <<>>
    /\ sentence_preds = <<>>
    /\ highlights = <<>>
    /\ tokenizer_called = FALSE
    /\ model_called = FALSE

\* the first call has returned; the same question and context are given
\* again.  results takes the two highlight lists, calls the probabilities
\* of the two forward passes.
SecondCall ==
    /\ pc = "done"
    /\ results = <<>>
    /\ \E rel \in (IF doc_sents = <<>> THEN {<<>>}
                   ELSE Reclassify(objects[model], features.sentence_ids, relevance)) :
          /\ results' = <<highlights, ProcessSingle(context, doc_sents, dataset, rel)>>
          /\ calls' = <<relevance, rel>>
    /\ UNCHANGED <<harness, data, rpc>>
    /\ UNCHANGED <<pipeline_vars, handle_vars>>

NextTwice == Next \/ SecondCall

SpecTwice == InitTwice /\ [][NextTwice]_vars

\* C14: idempotence.  With the model state unchanged, two calls of
\* _process_single with the same question and context return identical
\* highlight lists.
C14_Idempotent ==
    Len(results) = 2 => results[1] = results[2]

(***************************************************************************)
(* Further properties of forward, under SpecForward                        *)
(***************************************************************************)
\* window i of the batch has no sentence id at all
AllNone(i) == Present(features.sentence_ids[i]) = {}

\* C15: a window whose sentence ids are all NONE, also when that is so of
\* every window of the batch, gets sentence count 0 and offset 0 and the
\* empty selection, and the forward pass completes without error.
C15_AllNoneWindow ==
    pc # "batch" =>
        \A i \in BatchWindows :
            AllNone(i) =>
                /\ pc = "forwarded"
                /\ NSent(i) = 0
                /\ Offset(i) = 0
                /\ sentence_preds[i] = <<>>

(***************************************************************************)
(* The result loop of _process_single on any selection: the indices that   *)
(* reach it are taken from a range wider than the sentences there are.     *)
(***************************************************************************)
MaxPreds == 3

\* the selections that may reach the result loop: indices from -1 up
Selections == SeqsUpTo(-1..MaxSents, MaxPreds)

InitResolve ==
    /\ LoadedProcess
    /\ NoRequest
    /\ pc = "inferred"
    /\ question_len = 1
    /\ context \in Strings(MaxCtxTwice)
    /\ doc_sents \in SentTokenize(context) \ {<<>>}
    /\ sentence_positions = SentencePositions(context, doc_sents)
    /\ sentence_ids = WordLevelSentenceIds(doc_sents)
    /\ words = Words(doc_sents)
    /\ dataset = <<>>
    /\ features = <<>>
    /\ relevance = <<>>
    /\ \E pred \in Selections : sentence_preds = <<pred>>
    /\ highlights = <<>>
    /\ tokenizer_called = TRUE
    /\ model_called = TRUE

NextResolve == Resolve

SpecResolve == InitResolve /\ [][NextResolve]_vars

\* the in-range indices of the resolved selection, in its order
InRangePreds ==
    SelectSeq(sentence_preds[1], LAMBDA idx : InRange(idx, doc_sents))

\* C16: a selected index outside [0, number of sentences), negative or too
\* large, is dropped by the result loop, which returns (it has no raising
\* outcome) the highlights of all in-range indices of the selection, each
\* with the span of its sentence.
C16_OutOfRangeDropped ==
    Returned =>
        /\ Len(highlights) = Len(InRangePreds)
        /\ \A k \in DOMAIN highlights :
              /\ highlights[k].position = InRangePreds[k]
              /\ highlights[k].start = sentence_positions[InRangePreds[k] + 1].start
              /\ highlights[k].end = sentence_positions[InRangePreds[k] + 1].end

\* a selection with a negative index and one too large before an index in
\* range, whose highlight is returned
C16_Witness ==
    /\ Returned
    /\ \E i, j, k \in DOMAIN sentence_preds[1] :
          /\ i < k /\ j < k
          /\ sentence_preds[1][i] < 0
          /\ sentence_preds[1][j] >= Len(doc_sents)
          /\ InRange(sentence_preds[1][k], doc_sents)
    /\ Len(highlights) >= 1

(***************************************************************************)
(* Properties of the windows _process_single builds, under Spec            *)
(***************************************************************************)
\* the windows of the passage are built
Tokenized == pc \in {"tokenized", "collated", "inferred", "done"}

\* local position j (0-based) is one the selector may return for the
\* probabilities p of a window of n_sent sentences: at or above the
\* threshold, or the highest of all when none reaches it and it reaches alpha
SelectableAt(p, n_sent, j) ==
    /\ 0 <= j /\ j < n_sent
    /\ \/ p[j + 1] >= 50
       \/ /\ p[j + 1] >= 5
          /\ \A k \in 1..n_sent : p[k] < 50 /\ p[k] <= p[j + 1]

\* C17: offset arithmetic.  For every window of the passage with a sentence
\* id, the offset is the least sentence id present, and every index the
\* selector returns for it, whatever the probabilities, is a selected local
\* position plus the offset, lies between the least and the greatest
\* sentence id present, and is in [0, number of sentences); so the range
\* filter of the result loop drops nothing.
C17_OffsetArithmetic ==
    /\ pc = "tokenized" =>
          \A w \in DOMAIN dataset :
              LET ids == dataset[w].sentence_ids
              IN  Present(ids) # {} =>
                    /\ GlobalOffset(ids) = SetMin(Present(ids))
                    /\ \A p \in RowProbs(w) :
                          \A g \in WindowSelection(w, p) :
                              /\ SelectableAt(p, NumSents(ids), g - GlobalOffset(ids))
                              /\ SetMin(Present(ids)) <= g
                              /\ g <= SetMax(Present(ids))
                              /\ InRange(g, doc_sents)
    /\ (Returned /\ doc_sents # <<>>) =>
          Len(highlights) = Len(sentence_preds[1])

\* a returned call whose window starts after the first sentence (offset
\* above 0) and has a sentence selected
C17_Witness ==
    /\ Returned
    /\ doc_sents # <<>>
    /\ GlobalOffset(features.sentence_ids[1]) > 0
    /\ Len(highlights) >= 1

\* C18: padding rows are never selected.  For every window of a batch every
\* local position the selector returns is below the window's n_sent, also
\* when max_sentences of the batch is larger than n_sent and the rows
\* beyond n_sent carry probabilities of 0.5 or more (checked under
\* SpecForward).
C18_PaddingNeverSelected ==
    Forwarded =>
        \A i \in BatchWindows :
            \A g \in Selected(i) :
                0 <= g - Offset(i) /\ g - Offset(i) < NSent(i)

\* a window with sentences and with a padding row at 0.5, of which a
\* sentence is selected
C18_Witness ==
    /\ Forwarded
    /\ \E i \in BatchWindows :
          /\ NSent(i) >= 1
          /\ NSent(i) < MaxSentences(features.sentence_ids)
          /\ relevance[i][NSent(i) + 1] >= 50
          /\ Selected(i) # {}

\* the sentence ids of window w of the passage, and the rows of its matrix
\* when it is aggregated alone
IdsOf(w) == dataset[w].sentence_ids
RowsOf(w) == AggRows(IdsOf(w), MaxSentences(<<IdsOf(w)>>))

\* local position j (0-based) of window w stands for a sentence of which
\* the window has no token
TokenLess(w, j) == j + GlobalOffset(IdsOf(w)) \notin Present(IdsOf(w))

\* n_sent of window w is the greatest rebased sentence id plus one
NSentIsMaxPlusOne(w) ==
    NumSents(IdsOf(w))
        = SetMax({id - GlobalOffset(IdsOf(w)) : id \in Present(IdsOf(w))}) + 1

\* C19 as stated: for every window with a passage token, n_sent is the
\* greatest rebased id plus one and every local position in [0, n_sent) is
\* the rebased id of a token of the window: no zero-vector placeholder
\* inside [0, n_sent), and no index the selector can return stands for a
\* sentence absent from the window.
C19_EveryPositionHasToken ==
    pc = "tokenized" =>
        \A w \in DOMAIN dataset :
            Present(IdsOf(w)) # {} =>
                /\ NSentIsMaxPlusOne(w)
                /\ \A j \in 0..(NumSents(IdsOf(w)) - 1) :
                      /\ ~TokenLess(w, j)
                      /\ RowsOf(w)[j + 1] # "zero"
                /\ \A p \in RowProbs(w) :
                      WindowSelection(w, p) \subseteq Present(IdsOf(w))

\* C19 as amended: n_sent is the greatest rebased id plus one; the first
\* and the last local position have tokens in the window; a position in
\* between has none only when no token of the whole passage belongs to its
\* sentence, and then, and only then, its row is the zero-vector
\* placeholder; every position of [0, n_sent) can be selected.
C19_PlaceholderOnlyForTokenLess ==
    pc = "tokenized" =>
        \A w \in DOMAIN dataset :
            Present(IdsOf(w)) # {} =>
                /\ NSentIsMaxPlusOne(w)
                /\ ~TokenLess(w, 0)
                /\ ~TokenLess(w, NumSents(IdsOf(w)) - 1)
                /\ \A j \in 0..(NumSents(IdsOf(w)) - 1) :
                      /\ TokenLess(w, j) =>
                            \A v \in DOMAIN dataset :
                                j + GlobalOffset(IdsOf(w)) \notin Present(IdsOf(v))
                      /\ RowsOf(w)[j + 1] = "zero" <=> TokenLess(w, j)
                      /\ \E p \in RowProbs(w) :
                            j + GlobalOffset(IdsOf(w)) \in WindowSelection(w, p)

\* a window whose sentences leave a gap: a sentence between its first and
\* its last has no token
C19_Witness ==
    /\ pc = "tokenized"
    /\ \E w \in DOMAIN dataset :
          /\ Present(IdsOf(w)) # {}
          /\ \E j \in 0..(NumSents(IdsOf(w)) - 1) : TokenLess(w, j)

\* position t (1-based) of window w lies strictly before the window's first
\* passage-segment token
BeforePassage(w, t) == \A u \in 1..t : dataset[w].token_type_ids[u] # 1

\* C20: per-token sentence ids.  In every window of prepare_input_features,
\* a position strictly before the first passage-segment token has sentence
\* id NONE, a passage-segment token made from word k has the sentence id
\* recorded for word k in the word-level sentence-id sequence, and a token
\* with no underlying word has NONE.
C20_TokenSentenceIds ==
    Tokenized =>
        \A w \in DOMAIN dataset :
            \A t \in DOMAIN dataset[w].sentence_ids :
                /\ BeforePassage(w, t) => IdsOf(w)[t] = NONE
                /\ dataset[w].token_type_ids[t] = 1 =>
                      /\ dataset[w].word_ids[t] # PyNone
                      /\ IdsOf(w)[t] = sentence_ids[dataset[w].word_ids[t] + 1]
                /\ dataset[w].word_ids[t] = PyNone => IdsOf(w)[t] = NONE

\* a passage of several sentences cut into more than one window, where a
\* word of a later sentence gave two tokens to one window
C20_Witness ==
    /\ pc = "tokenized"
    /\ Len(dataset) > 1
    /\ \E w \in DOMAIN dataset :
          \E t \in DOMAIN IdsOf(w) :
              /\ t + 1 \in DOMAIN IdsOf(w)
              /\ dataset[w].token_type_ids[t] = 1
              /\ dataset[w].token_type_ids[t + 1] = 1
              /\ dataset[w].word_ids[t] = dataset[w].word_ids[t + 1]
              /\ dataset[w].word_ids[t] > 0
              /\ IdsOf(w)[t] > 0
              /\ IdsOf(w)[t] # dataset[w].word_ids[t]

\* C21: field lengths.  In every window of prepare_input_features the
\* fields input_ids, token_type_ids, attention_mask and sentence_ids have
\* one common length, at most max_seq_length, and position t of
\* sentence_ids describes token t of input_ids: a sentence id other than
\* NONE stands at a passage token only.
C21_FieldLengths ==
    Tokenized =>
        \A w \in DOMAIN dataset :
            /\ Len(dataset[w].input_ids) <= MAX_LENGTH
            /\ Len(dataset[w].token_type_ids) = Len(dataset[w].input_ids)
            /\ Len(dataset[w].attention_mask) = Len(dataset[w].input_ids)
            /\ Len(dataset[w].sentence_ids) = Len(dataset[w].input_ids)
            /\ \A t \in DOMAIN dataset[w].sentence_ids :
                  dataset[w].sentence_ids[t] # NONE =>
                      /\ dataset[w].input_ids[t] = 3
                      /\ dataset[w].token_type_ids[t] = 1

\* a passage cut into more than one window, the first of which is filled
\* to max_seq_length and carries sentence ids
C21_Witness ==
    /\ pc = "tokenized"
    /\ Len(dataset) > 1
    /\ Len(dataset[1].input_ids) = MAX_LENGTH
    /\ Len(dataset[Len(dataset)].input_ids) < MAX_LENGTH
    /\ Present(IdsOf(1)) # {}

(***************************************************************************)
(* The list handle returns, under SpecRequests                             *)
(***************************************************************************)
\* the payload is an object of none of the shapes handle knows
Unrecognized(p) ==
    /\ ~p.is_list
    /\ "inputs" \notin p.keys
    /\ ~(Fields \subseteq p.keys)

\* entry r of results answers row r: an error object, or the highlights of
\* the calls made for row r
EntryOfRow(r) ==
    \/ results[r].tag = "error"
    \/ /\ results[r].tag = "highlights"
       /\ results[r].pairs = CallsOfRow(r)

\* C22: for rows whose payloads are JSON objects or lists, handle returns
\* exactly one entry per row, in row order, each a highlights result or an
\* error object; a row of an unrecognized shape yields an error entry and
\* does not keep the other rows of the call from their results.
C22_OneEntryPerRow ==
    harness = "handle" =>
        /\ rpc # "raised"
        /\ Len(results) = Len(data)
        /\ \A r \in DOMAIN results :
              /\ EntryOfRow(r)
              /\ Unrecognized(data[r]) => results[r].tag = "error"

====
